---- MODULE Spec2Model ----
(***************************************************************************)
(* Model of example_1.py: Match, MatchDataLoader and MatchAnalyzer.        *)
(*                                                                         *)
(* Python text is a sequence of one-character strings.  Python values that *)
(* the program compares with ==, < and > (team names, scores, None) are    *)
(* tagged records, so that the text "3" and the integer 3 are different    *)
(* values, as they are in Python.                                          *)
(***************************************************************************)
EXTENDS Integers, Sequences, FiniteSets, TLC

VARIABLES
    m_pc,          \* Match driver: "start", "built", "asked"
    m_input,       \* arguments of the construction that was made
    m_obj,         \* outcome of Match(...) / MatchDataLoader.parse(row)
    m_winner,      \* value returned by winner() on m_obj
    file_content,  \* text of the line source held in loader.data_file
    file_pos,      \* read position of loader.data_file (characters consumed)
    written,       \* the lines the source was written with, in order
    data,          \* loader.data
    calls,         \* one record per load() call made so far
    matches,       \* analyzer.matches
    ctor_matches,  \* the list that was handed to MatchAnalyzer(...)
    query          \* the last analyzer query and what it returned

vars == <<m_pc, m_input, m_obj, m_winner, file_content, file_pos, written,
          data, calls, matches, ctor_matches, query>>

match_vars == <<m_pc, m_input, m_obj, m_winner>>
loader_vars == <<file_content, file_pos, written, data, calls>>
analyzer_vars == <<matches, ctor_matches, query>>

(***************************************************************************)
(* Bounds                                                                  *)
(***************************************************************************)
MaxScore == 10
MaxLineScore == 1
MaxLines == 3
MaxCalls == 3
MaxMatches == 2
MaxMatchScore == 1

(***************************************************************************)
(* Text                                                                    *)
(***************************************************************************)
NL == "\n"
Digits == <<"0", "1", "2", "3", "4", "5", "6", "7", "8", "9">>

\* Code point of a character (Python compares str by code point).
Ord(c) ==
    CASE c = NL  -> 10
      [] c = " " -> 32
      [] c = "," -> 44
      [] c = "-" -> 45
      [] c = "/" -> 47
      [] c = "0" -> 48
      [] c = "1" -> 49
      [] c = "2" -> 50
      [] c = "3" -> 51
      [] c = "4" -> 52
      [] c = "5" -> 53
      [] c = "6" -> 54
      [] c = "7" -> 55
      [] c = "8" -> 56
      [] c = "9" -> 57
      [] c = "A" -> 65
      [] c = "B" -> 66
      [] c = "C" -> 67
      [] c = "a" -> 97
      [] c = "x" -> 120

IsDigit(c) == Ord(c) >= 48 /\ Ord(c) <= 57
DigitVal(c) == Ord(c) - 48

\* str < str: lexicographic on code points, a proper prefix is smaller.
RECURSIVE StrLess(_, _)
StrLess(s, t) ==
    IF t = <<>> THEN FALSE
    ELSE IF s = <<>> THEN TRUE
    ELSE IF Ord(Head(s)) # Ord(Head(t)) THEN Ord(Head(s)) < Ord(Head(t))
    ELSE StrLess(Tail(s), Tail(t))

\* str.split(sep): cut at every separator, empty pieces kept.
RECURSIVE split(_, _)
split(s, sep) ==
    IF \A i \in 1..Len(s) : s[i] # sep THEN <<s>>
    ELSE LET k == CHOOSE i \in 1..Len(s) :
                      s[i] = sep /\ \A j \in 1..(i - 1) : s[j] # sep
         IN  <<SubSeq(s, 1, k - 1)>> \o split(SubSeq(s, k + 1, Len(s)), sep)

\* Value of a run of decimal digits.
RECURSIVE DigitsValue(_)
DigitsValue(s) ==
    IF s = <<>> THEN 0
    ELSE 10 * DigitsValue(SubSeq(s, 1, Len(s) - 1)) + DigitVal(s[Len(s)])

\* Decimal text of a natural number, as a writer of the data file prints it.
RECURSIVE Dec(_)
Dec(n) == IF n < 10 THEN <<Digits[n + 1]>>
          ELSE Dec(n \div 10) \o <<Digits[(n % 10) + 1]>>

(***************************************************************************)
(* Python values                                                           *)
(***************************************************************************)
PyInt(n) == [tag |-> "int", n |-> n, s |-> <<>>]
PyStr(s) == [tag |-> "str", n |-> 0, s |-> s]
PyNone == [tag |-> "None", n |-> 0, s |-> <<>>]

\* x > y and x < y on two ints or on two strs.
PyLess(x, y) ==
    IF x.tag = "int" /\ y.tag = "int" THEN x.n < y.n
    ELSE StrLess(x.s, y.s)
PyGreater(x, y) == PyLess(y, x)

(***************************************************************************)
(* datetime.strptime(date, "%d/%m/%Y")                                     *)
(***************************************************************************)
IsLeap(y) == (y % 4 = 0 /\ y % 100 # 0) \/ y % 400 = 0
DaysInMonth(y, m) ==
    IF m = 2 THEN (IF IsLeap(y) THEN 29 ELSE 28)
    ELSE IF m \in {4, 6, 9, 11} THEN 30 ELSE 31

\* %d : 3[0-1] | [1-2]\d | 0[1-9] | [1-9] | " "[1-9]
MatchesDay(s) ==
    \/ Len(s) = 2 /\ s[1] = "3" /\ s[2] \in {"0", "1"}
    \/ Len(s) = 2 /\ s[1] \in {"1", "2"} /\ IsDigit(s[2])
    \/ Len(s) = 2 /\ s[1] \in {"0", " "} /\ IsDigit(s[2]) /\ s[2] # "0"
    \/ Len(s) = 1 /\ IsDigit(s[1]) /\ s[1] # "0"

\* %m : 1[0-2] | 0[1-9] | [1-9]
MatchesMonth(s) ==
    \/ Len(s) = 2 /\ s[1] = "1" /\ s[2] \in {"0", "1", "2"}
    \/ Len(s) = 2 /\ s[1] = "0" /\ IsDigit(s[2]) /\ s[2] # "0"
    \/ Len(s) = 1 /\ IsDigit(s[1]) /\ s[1] # "0"

\* %Y : \d\d\d\d
MatchesYear(s) == Len(s) = 4 /\ \A i \in 1..4 : IsDigit(s[i])

NoDate == [day |-> 0, month |-> 0, year |-> 0]
DayValue(s) == IF s[1] = " " THEN DigitVal(s[2]) ELSE DigitsValue(s)

strptime(date) ==
    LET p == split(date, "/")
    IN  IF Len(p) # 3 THEN [exc |-> "ValueError", val |-> NoDate]
        ELSE IF ~(MatchesDay(p[1]) /\ MatchesMonth(p[2]) /\ MatchesYear(p[3]))
             THEN [exc |-> "ValueError", val |-> NoDate]
        ELSE LET d == DayValue(p[1])
                 m == DigitsValue(p[2])
                 y == DigitsValue(p[3])
             IN  IF y < 1 \/ d > DaysInMonth(y, m)
                 THEN [exc |-> "ValueError", val |-> NoDate]
                 ELSE [exc |-> "none",
                       val |-> [day |-> d, month |-> m, year |-> y]]

(***************************************************************************)
(* class Match                                                             *)
(***************************************************************************)
NoMatch == [home_team |-> PyNone, away_team |-> PyNone, date |-> NoDate,
            home_team_score |-> PyNone, away_team_score |-> PyNone]

\* Match.__init__: the fields are stored as given, only the date is parsed.
MatchInit(date, home_team, away_team, home_team_score, away_team_score) ==
    LET dt == strptime(date)
    IN  IF dt.exc # "none" THEN [exc |-> dt.exc, val |-> NoMatch]
        ELSE [exc |-> "none",
              val |-> [home_team |-> home_team,
                       away_team |-> away_team,
                       date |-> dt.val,
                       home_team_score |-> home_team_score,
                       away_team_score |-> away_team_score]]

\* A winner() that gives a drawn match to the home team.
winner_home_on_tie(m) ==
    IF ~PyLess(m.home_team_score, m.away_team_score) THEN m.home_team
    ELSE m.away_team

\* Match.winner
winner(m) ==
    IF PyGreater(m.home_team_score, m.away_team_score) THEN m.home_team
    ELSE IF PyLess(m.home_team_score, m.away_team_score) THEN m.away_team
    ELSE PyNone

(***************************************************************************)
(* class MatchDataLoader                                                   *)
(***************************************************************************)
\* MatchDataLoader.parse: the five fields go to Match as the text they are.
parse(row) ==
    LET parsed_data == split(row, ",")
    IN  IF Len(parsed_data) < 5 THEN [exc |-> "IndexError", val |-> NoMatch]
        ELSE MatchInit(parsed_data[1], PyStr(parsed_data[2]),
                       PyStr(parsed_data[3]), PyStr(parsed_data[4]),
                       PyStr(parsed_data[5]))

\* file.readlines() on the text that is left: every line keeps its "\n".
RECURSIVE lines_of(_)
lines_of(s) ==
    IF s = <<>> THEN <<>>
    ELSE IF \A i \in 1..Len(s) : s[i] # NL THEN <<s>>
    ELSE LET k == CHOOSE i \in 1..Len(s) :
                      s[i] = NL /\ \A j \in 1..(i - 1) : s[j] # NL
         IN  <<SubSeq(s, 1, k)>> \o lines_of(SubSeq(s, k + 1, Len(s)))

readlines(content, pos) == lines_of(SubSeq(content, pos + 1, Len(content)))

\* [self.parse(row) for row in ...]: every line is parsed before any append.
load_parsed(lines) == [i \in 1..Len(lines) |-> parse(lines[i])]

\* The comprehension raises when some line does.
load_raises(parsed) == \E i \in 1..Len(parsed) : parsed[i].exc # "none"

FirstError(parsed) ==
    CHOOSE i \in 1..Len(parsed) :
        parsed[i].exc # "none" /\ \A j \in 1..(i - 1) : parsed[j].exc = "none"

MatchesOf(parsed) == [i \in 1..Len(parsed) |-> parsed[i].val]

\* A load() that appends each Match as soon as its line is parsed.
load_data_eager(old, parsed) ==
    IF load_raises(parsed)
    THEN old \o MatchesOf(SubSeq(parsed, 1, FirstError(parsed) - 1))
    ELSE old \o MatchesOf(parsed)

\* A load() that starts from an empty list on every call.
load_data_reset(old, parsed) ==
    IF load_raises(parsed) THEN old ELSE MatchesOf(parsed)

\* A load() that appends the rows last line first.
load_data_reversed(old, parsed) ==
    IF load_raises(parsed) THEN old
    ELSE old \o [i \in 1..Len(parsed) |-> parsed[Len(parsed) + 1 - i].val]

\* self.data after load(): untouched on an error, else the rows appended.
load_data(old, parsed) ==
    IF load_raises(parsed) THEN old ELSE old \o MatchesOf(parsed)

\* MatchDataLoader.load
load ==
    LET lines == readlines(file_content, file_pos)
        parsed == load_parsed(lines)
        new_data == load_data(data, parsed)
    IN  /\ Len(calls) < MaxCalls
        /\ file_pos' = Len(file_content)
        /\ data' = new_data
        /\ calls' = Append(calls,
              IF load_raises(parsed)
              THEN [outcome |-> "raised", exc |-> parsed[FirstError(parsed)].exc,
                    value |-> <<>>, lines |-> lines, nread |-> Len(lines),
                    src_len |-> Len(file_content)]
              ELSE [outcome |-> "returned", exc |-> "none",
                    value |-> new_data, lines |-> lines, nread |-> Len(lines),
                    src_len |-> Len(file_content)])
        /\ UNCHANGED <<file_content, written, match_vars, analyzer_vars>>

\* The owner of the source writes one more whole line at its end.
source_append(line) ==
    /\ Len(written) < MaxLines
    /\ IF file_content = <<>> THEN TRUE
       ELSE file_content[Len(file_content)] = NL
    /\ file_content' = file_content \o line
    /\ written' = Append(written, line)
    /\ UNCHANGED <<file_pos, data, calls, match_vars, analyzer_vars>>

(***************************************************************************)
(* class MatchAnalyzer                                                     *)
(***************************************************************************)
\* MatchAnalyzer.number_of_matches
number_of_matches(ms) == Len(ms)

\* A team_matches() that looks at the home side only.
team_matches_home_only(ms, team_name) ==
    SelectSeq(ms, LAMBDA m : m.home_team = team_name)

\* MatchAnalyzer.team_matches
team_matches(ms, team_name) ==
    SelectSeq(ms, LAMBDA m : m.home_team = team_name \/ m.away_team = team_name)

\* A matches_won() whose include_ties branch keeps every match of the team.
matches_won_keep_all(ms, team_name, include_ties) ==
    LET tm == team_matches(ms, team_name)
    IN  IF include_ties THEN tm
        ELSE SelectSeq(tm, LAMBDA m : winner(m) = team_name)

\* MatchAnalyzer.matches_won
matches_won(ms, team_name, include_ties) ==
    LET tm == team_matches(ms, team_name)
    IN  IF include_ties
        THEN SelectSeq(tm, LAMBDA m : winner(m) = team_name \/ winner(m) = PyNone)
        ELSE SelectSeq(tm, LAMBDA m : winner(m) = team_name)

NoQuery == [op |-> "none", queried |-> FALSE, team_name |-> PyNone,
            include_ties |-> FALSE, ret |-> <<>>, n |-> 0]

number_of_matches_call ==
    /\ query' = [NoQuery EXCEPT !.op = "number_of_matches",
                                !.queried = (query.op # "none"),
                                !.n = number_of_matches(matches)]
    /\ UNCHANGED <<matches, ctor_matches, match_vars, loader_vars>>

\* A team_matches() that filters self.matches in place.
team_matches_call_in_place(team_name) ==
    /\ query' = [NoQuery EXCEPT !.op = "team_matches", !.queried = TRUE,
                                !.team_name = team_name,
                                !.ret = team_matches(matches, team_name)]
    /\ matches' = team_matches(matches, team_name)
    /\ UNCHANGED <<ctor_matches, match_vars, loader_vars>>

team_matches_call(team_name) ==
    /\ query' = [NoQuery EXCEPT !.op = "team_matches", !.queried = TRUE,
                                !.team_name = team_name,
                                !.ret = team_matches(matches, team_name)]
    /\ UNCHANGED <<matches, ctor_matches, match_vars, loader_vars>>

matches_won_call(team_name, include_ties) ==
    /\ query' = [NoQuery EXCEPT !.op = "matches_won", !.queried = TRUE,
                                !.team_name = team_name,
                                !.include_ties = include_ties,
                                !.ret = matches_won(matches, team_name,
                                                    include_ties)]
    /\ UNCHANGED <<matches, ctor_matches, match_vars, loader_vars>>

(***************************************************************************)
(* Inputs                                                                  *)
(***************************************************************************)
TeamA == <<"A">>
TeamB == <<"B">>
TeamC == <<"C">>
Teams == {TeamA, TeamB}

GoodDates == {[d |-> 1, m |-> 1, y |-> 2014], [d |-> 31, m |-> 12, y |-> 2013]}

DateText(dt) == Dec(dt.d) \o <<"/">> \o Dec(dt.m) \o <<"/">> \o Dec(dt.y)
Date2014 == DateText([d |-> 1, m |-> 1, y |-> 2014])

\* One row of the data file: date,homeTeam,awayTeam,homeScore,awayScore
Row5(date, home, away, hs, as) ==
    date \o <<",">> \o home \o <<",">> \o away \o <<",">> \o hs \o <<",">> \o as

Fields(maxScore) ==
    {[date |-> dt, home |-> ht, away |-> at, h |-> h, a |-> a] :
        dt \in GoodDates, ht \in Teams, at \in Teams,
        h \in 0..maxScore, a \in 0..maxScore}
NoFields == [date |-> [d |-> 0, m |-> 0, y |-> 0], home |-> <<>>, away |-> <<>>,
             h |-> 0, a |-> 0]

Format(f) == Row5(DateText(f.date), f.home, f.away, Dec(f.h), Dec(f.a))
Line(f, nl) == IF nl THEN Format(f) \o <<NL>> ELSE Format(f)

\* Rows with fewer than five fields; the first is a blank line.
FewFieldRows == {<<>>, Date2014 \o <<",">> \o TeamA \o <<",">> \o TeamB \o <<",", "1">>}
\* Rows whose date is not day/month/4-digit-year.
BadDateRows == {Row5(<<"1", "/", "1", "/", "1", "4">>, TeamA, TeamB, Dec(1), Dec(0)),
                Row5(<<"x">>, TeamA, TeamB, Dec(1), Dec(0))}
\* Rows with a score that is not a non-negative integer.
BadScoreRows == {Row5(Date2014, TeamA, TeamB, <<"x">>, Dec(1)),
                 Row5(Date2014, TeamA, TeamB, Dec(2), <<"-", "1">>)}
BadRows == FewFieldRows \cup BadDateRows \cup BadScoreRows

\* Rows of the files given to the loader.
FileFields == {f \in Fields(MaxLineScore) :
                   f.date.y = 2014 /\ f.home = TeamA /\ f.away = TeamB /\ f.a = 0}
FileBadRows == {<<>>,
                Row5(<<"x">>, TeamA, TeamB, Dec(1), Dec(0)),
                Row5(Date2014, TeamA, TeamB, <<"x">>, Dec(1))}
FileRows == {Format(f) : f \in FileFields} \cup FileBadRows

RECURSIVE Concat(_)
Concat(ls) == IF ls = <<>> THEN <<>> ELSE Head(ls) \o Concat(Tail(ls))

\* Files of up to MaxLines lines; only the last line may lack its "\n".
FileLineSeqs ==
    UNION {
        {[i \in 1..n |-> IF i < n \/ nl THEN rs[i] \o <<NL>> ELSE rs[i]] :
            rs \in {x \in [1..n -> FileRows] : n = 0 \/ x[n] # <<>>},
            nl \in BOOLEAN}
        : n \in 0..MaxLines}
    \cup
    UNION {{[i \in 1..n |-> rs[i] \o <<NL>>] : rs \in [1..n -> FileRows]}
        : n \in 1..MaxLines}

\* Dates given to the constructor: the good ones and one that is no date.
CtorDates == {DateText(dt) : dt \in GoodDates} \cup {<<"x">>}

\* Lists given to the analyzer: matches built with integer scores
\* and, of three teams, each one at home to a second and away to the third.
Fixtures == {<<TeamA, TeamB>>, <<TeamC, TeamA>>, <<TeamB, TeamC>>}
AnalyzerMatches ==
    {MatchInit(Date2014, PyStr(fx[1]), PyStr(fx[2]), PyInt(h), PyInt(a)).val :
        fx \in Fixtures, h \in 0..MaxMatchScore, a \in 0..MaxMatchScore}
\* Names asked of the analyzer: two of the teams, and one in no match that
\* differs from a team by case only.
QueryNames == {TeamA, TeamB, <<"a">>}
AnalyzerLists ==
    UNION {[1..n -> AnalyzerMatches] : n \in 0..MaxMatches}

(***************************************************************************)
(* Match driver: build one Match, then ask for its winner                  *)
(***************************************************************************)
NoInput == [kind |-> "none", good |-> FALSE, f |-> NoFields, text |-> <<>>]
NoResult == [exc |-> "none", val |-> NoMatch]

new_match(date, f) ==
    /\ m_pc = "start"
    /\ m_pc' = "built"
    /\ m_input' = [kind |-> "init", good |-> strptime(date).exc = "none",
                   f |-> f, text |-> date]
    /\ m_obj' = MatchInit(date, PyStr(f.home), PyStr(f.away),
                          PyInt(f.h), PyInt(f.a))
    /\ UNCHANGED <<m_winner, loader_vars, analyzer_vars>>

parse_call(row, f, good) ==
    /\ m_pc = "start"
    /\ m_pc' = "built"
    /\ m_input' = [kind |-> "parse", good |-> good, f |-> f, text |-> row]
    /\ m_obj' = parse(row)
    /\ UNCHANGED <<m_winner, loader_vars, analyzer_vars>>

winner_call ==
    /\ m_pc = "built"
    /\ m_obj.exc = "none"
    /\ m_pc' = "asked"
    /\ m_winner' = winner(m_obj.val)
    /\ UNCHANGED <<m_input, m_obj, loader_vars, analyzer_vars>>

(***************************************************************************)
(* Specifications                                                          *)
(***************************************************************************)
MatchIdle ==
    /\ m_pc = "start" /\ m_input = NoInput /\ m_obj = NoResult
    /\ m_winner = PyNone
LoaderIdle ==
    /\ file_content = <<>> /\ file_pos = 0 /\ written = <<>>
    /\ data = <<>> /\ calls = <<>>
AnalyzerIdle ==
    /\ matches = <<>> /\ ctor_matches = <<>> /\ query = NoQuery

\* MatchDataLoader(input_file) over a file that was just opened.
Init ==
    /\ written \in FileLineSeqs
    /\ file_content = Concat(written)
    /\ file_pos = 0
    /\ data = <<>>
    /\ calls = <<>>
    /\ MatchIdle
    /\ AnalyzerIdle

Next ==
    \/ load
    \/ \E r \in FileRows : source_append(r \o <<NL>>)

Spec == Init /\ [][Next]_vars

InitMatch == MatchIdle /\ LoaderIdle /\ AnalyzerIdle

NextMatch ==
    \/ \E date \in CtorDates, f \in Fields(MaxScore) : new_match(date, f)
    \/ \E f \in Fields(MaxScore), nl \in BOOLEAN : parse_call(Line(f, nl), f, TRUE)
    \/ \E r \in BadRows, nl \in BOOLEAN :
          parse_call(IF nl THEN r \o <<NL>> ELSE r, NoFields, FALSE)
    \/ winner_call

SpecMatch == InitMatch /\ [][NextMatch]_vars

\* MatchAnalyzer(match_data)
InitAnalyzer ==
    /\ ctor_matches \in AnalyzerLists
    /\ matches = ctor_matches
    /\ query = NoQuery
    /\ MatchIdle
    /\ LoaderIdle

NextAnalyzer ==
    \/ number_of_matches_call
    \/ \E t \in QueryNames : team_matches_call(PyStr(t))
    \/ \E t \in QueryNames, ties \in BOOLEAN : matches_won_call(PyStr(t), ties)

SpecAnalyzer == InitAnalyzer /\ [][NextAnalyzer]_vars

(***************************************************************************)
(* Properties                                                              *)
(***************************************************************************)
Range(sq) == {sq[i] : i \in 1..Len(sq)}
StripNL(line) ==
    IF line # <<>> /\ line[Len(line)] = NL THEN SubSeq(line, 1, Len(line) - 1)
    ELSE line

\* The k-th smallest index of idx, and a list being ms cut down to idx.
KthOf(idx, k) == CHOOSE i \in idx : Cardinality({j \in idx : j < i}) = k - 1
IsSelection(ret, ms, idx) ==
    /\ Len(ret) = Cardinality(idx)
    /\ \A k \in 1..Len(ret) : ret[k] = ms[KthOf(idx, k)]

\* C1: for a Match built with integer scores (h, a), winner() is the home
\* team exactly when h > a, the away team exactly when h < a, None exactly
\* when h = a, and never anything else.
C1_WinnerByScore ==
    (m_pc = "asked" /\ m_input.kind = "init") =>
        LET f == m_input.f
        IN  /\ m_winner \in {PyStr(f.home), PyStr(f.away), PyNone}
            /\ (m_winner = PyNone) <=> (f.h = f.a)
            /\ f.home # f.away =>
                  /\ (m_winner = PyStr(f.home)) <=> (f.h > f.a)
                  /\ (m_winner = PyStr(f.away)) <=> (f.h < f.a)
            /\ f.home = f.away => ((m_winner = PyStr(f.home)) <=> (f.h # f.a))

C1_Witness ==
    /\ m_pc = "asked" /\ m_input.kind = "init"
    /\ m_input.f.home # m_input.f.away
    /\ m_input.f.h = 9 /\ m_input.f.a = 10
    /\ m_winner = PyStr(m_input.f.away)

\* C2: team_matches(name) is exactly the matches of the analyzer's list whose
\* home_team or away_team is name, character for character, in the order of
\* the list; a name that is in no match gives the empty list.
C2_TeamFilter ==
    query.op = "team_matches" =>
        LET name == query.team_name.s
            idx == {i \in 1..Len(ctor_matches) :
                       \/ ctor_matches[i].home_team.s = name
                       \/ ctor_matches[i].away_team.s = name}
        IN  /\ IsSelection(query.ret, ctor_matches, idx)
            /\ idx = {} => query.ret = <<>>

C2_Witness ==
    /\ query.op = "team_matches"
    /\ Len(ctor_matches) = 2
    /\ ctor_matches[1].home_team # query.team_name
    /\ ctor_matches[1].away_team # query.team_name
    /\ ctor_matches[2].away_team = query.team_name
    /\ query.ret = <<ctor_matches[2]>>

\* The team played the match and the other side scored more.
Lost(m, name) ==
    \/ /\ m.home_team = name /\ m.away_team # name
       /\ m.home_team_score.n < m.away_team_score.n
    \/ /\ m.away_team = name /\ m.home_team # name
       /\ m.home_team_score.n > m.away_team_score.n
Played(m, name) == m.home_team = name \/ m.away_team = name

\* C3: matches_won(name) is exactly the matches the team played whose
\* winner() is name; with include_ties also those whose winner() is None.  A
\* drawn match of the team is then counted, a lost one never is, and a team
\* that played no match gets the empty list.
C3_MatchesWon ==
    query.op = "matches_won" =>
        LET name == query.team_name
            ties == query.include_ties
            idx == {i \in 1..Len(ctor_matches) :
                       /\ Played(ctor_matches[i], name)
                       /\ \/ winner(ctor_matches[i]) = name
                          \/ ties /\ winner(ctor_matches[i]) = PyNone}
        IN  /\ IsSelection(query.ret, ctor_matches, idx)
            /\ \A m \in Range(query.ret) : ~Lost(m, name)
            /\ ties => \A m \in Range(ctor_matches) :
                          (Played(m, name) /\
                           m.home_team_score.n = m.away_team_score.n)
                              => m \in Range(query.ret)
            /\ (\A m \in Range(ctor_matches) : ~Played(m, name))
                  => query.ret = <<>>

C3_Witness ==
    /\ query.op = "matches_won" /\ query.include_ties
    /\ Len(ctor_matches) = 2
    /\ Lost(ctor_matches[1], query.team_name)
    /\ Played(ctor_matches[2], query.team_name)
    /\ winner(ctor_matches[2]) = PyNone
    /\ query.ret = <<ctor_matches[2]>>

\* C4: the Match parsed from "D/M/YYYY,A,B,h,a" (with or without its line
\* terminator) has home_team A, away_team B, the integers h and a as scores
\* and the date D, M, YYYY.
C4_RoundTrip ==
    (m_pc # "start" /\ m_input.kind = "parse" /\ m_input.good) =>
        LET f == m_input.f
        IN  /\ m_obj.exc = "none"
            /\ m_obj.val.home_team = PyStr(f.home)
            /\ m_obj.val.away_team = PyStr(f.away)
            /\ m_obj.val.date = [day |-> f.date.d, month |-> f.date.m,
                                 year |-> f.date.y]
            /\ m_obj.val.home_team_score = PyInt(f.h)
            /\ m_obj.val.away_team_score = PyInt(f.a)

Malformed(line) == StripNL(line) \in BadRows \cup FileBadRows

\* C6: when a line that load() reads is malformed, load() ends in an error
\* and returns no list.
C6_FailFast ==
    \A k \in 1..Len(calls) :
        (\E i \in 1..Len(calls[k].lines) : Malformed(calls[k].lines[i]))
            => calls[k].outcome = "raised"

GoodLine(line) == \E f \in FileFields : StripNL(line) = Format(f)
FieldsOf(line) == CHOOSE f \in FileFields : StripNL(line) = Format(f)

\* C7: on a fresh loader over n well-formed lines, load() returns n records,
\* the i-th parsed from the i-th line, and leaves the source exhausted.
C7_LoadAll ==
    [][(/\ calls = <<>>
        /\ calls' # <<>>
        /\ \A i \in 1..Len(written) : GoodLine(written[i]))
       => LET ret == calls'[1].value
          IN  /\ calls'[1].outcome = "returned"
              /\ Len(ret) = Len(written)
              /\ \A i \in 1..Len(written) :
                    /\ ret[i] = parse(written[i]).val
                    /\ ret[i].home_team = PyStr(FieldsOf(written[i]).home)
                    /\ ret[i].away_team = PyStr(FieldsOf(written[i]).away)
                    /\ ret[i].date.day = FieldsOf(written[i]).date.d
              /\ data' = ret
              /\ file_pos' = Len(file_content')
              /\ readlines(file_content', file_pos') = <<>>]_vars

C7_Witness ==
    /\ Len(calls) = 1
    /\ calls[1].outcome = "returned"
    /\ Len(calls[1].value) = 2
    /\ calls[1].value[1] # calls[1].value[2]
    /\ Len(written) = 2 /\ GoodLine(written[1]) /\ GoodLine(written[2])
    /\ file_pos = Len(file_content)

\* C8: whatever queries were made, number_of_matches() is the length of the
\* list given to the constructor and the analyzer's list is that list still,
\* same matches in the same order.
C8_QueriesDoNotMutate ==
    /\ matches = ctor_matches
    /\ number_of_matches(matches) = Len(ctor_matches)
    /\ query.op = "number_of_matches" => query.n = Len(ctor_matches)

C8_Witness ==
    /\ query.op = "number_of_matches"
    /\ query.queried
    /\ Len(ctor_matches) = 2
    /\ ctor_matches[1] # ctor_matches[2]
    /\ query.n = 2

\* C9: for a Match parsed from a row with decimal scores h and a, winner()
\* follows the numeric order of h and a.
C9_NumericWinner ==
    (m_pc = "asked" /\ m_input.kind = "parse" /\ m_input.good
        /\ m_input.f.home # m_input.f.away) =>
        LET f == m_input.f
        IN  /\ f.h > f.a => m_winner = PyStr(f.home)
            /\ f.h < f.a => m_winner = PyStr(f.away)
            /\ f.h = f.a => m_winner = PyNone

\* C10: a load() that raises leaves loader.data as it was before the call,
\* rows parsed before the bad one included, but has consumed every line of
\* the source, so the next load() has no line to parse.
C10_FailedLoadAtomic ==
    [][/\ (/\ Len(calls') = Len(calls) + 1
           /\ calls'[Len(calls')].outcome = "raised")
          => /\ data' = data
             /\ file_pos' = Len(file_content')
             /\ readlines(file_content', file_pos') = <<>>
       /\ (/\ Len(calls') = Len(calls) + 1
           /\ calls # <<>>
           /\ calls[Len(calls)].outcome = "raised"
           /\ calls[Len(calls)].src_len = Len(file_content))
          => /\ calls'[Len(calls')].nread = 0
             /\ calls'[Len(calls')].outcome = "returned"
             /\ data' = data]_vars

C10_Witness ==
    /\ Len(calls) = 3
    /\ calls[1].outcome = "returned" /\ calls[1].value # <<>>
    /\ calls[2].outcome = "raised" /\ calls[2].nread = 2
    /\ parse(calls[2].lines[1]).exc = "none"
    /\ calls[3].nread = 0
    /\ data = calls[1].value

====
